---- MODULE Spec2Model ----
(***************************************************************************)
(* Roll-off roof controller firmware (RoofController.ino).                 *)
(*                                                                         *)
(* The firmware is one cooperative loop: loop() drains the pending Firmata *)
(* string messages (each one runs stringCallback) and then runs            *)
(* handleState(), which evaluates the safety cutout and, on a state        *)
(* change, runs one of the blocking relay routines motorFwd, motorReverse  *)
(* or motorOff.  The relay routines are modelled statement by statement    *)
(* (pc is the position inside them), everything else handler by handler.   *)
(* The status LED (handleLEDs, toggleLed) touches neither the roof state   *)
(* nor the relays and is left out.                                         *)
(***************************************************************************)
EXTENDS Integers, Sequences, FiniteSets, TLC

(***************************************************************************)
(* Bounds of the model.                                                    *)
(***************************************************************************)
\* longest queue of received, not yet processed string messages
MaxInbox == 2
\* number of environment events (a message arriving, time passing while
\* the loop idles) in one behaviour
MaxEvents == 3

(***************************************************************************)
(* Program constants.                                                      *)
(***************************************************************************)
LOW == 0
HIGH == 1

pinRelayOpen == 3
pinRelayClose == 2
pinLimitSwitchClose == 4
pinLimitSwitchOpen == 5
parkTelescopeRA == 6
parkTelescopeDEC == 7

roofClosed == 0
roofOpen == 1
roofStopped == 2
roofClosing == 3
roofOpening == 4

\* delay(1000) in motorOff
SettleDelay == 1000
\* busy-wait of the pulse in motorFwd / motorReverse
PulseWidth == 800
\* threshold of safetyCutout
CutoutLimit == 20000

\* `long' and `unsigned long' are 32 bits wide.  A 32-bit quantity is held
\* as the two's-complement long with the same bits, MinLong .. MaxLong.
MaxLong == 2147483647
MinLong == (-2147483647) - 1

Levels == {LOW, HIGH}
RelayPins == {pinRelayOpen, pinRelayClose}
SensorPins == {pinLimitSwitchClose, pinLimitSwitchOpen, parkTelescopeRA, parkTelescopeDEC}
RoofStates == {roofClosed, roofOpen, roofStopped, roofClosing, roofOpening}

\* the string messages a host sends: the four commands and one string that
\* is none of them (the match is case-sensitive)
Commands == {"OPEN", "CLOSE", "ABORT", "QUERY", "open"}

\* time that passes while the loop idles between two steps, in ms
Gaps == {20000, 20001, MaxLong}

VARIABLES
  roofState,          \* volatile int roofState
  previousRoofState,  \* volatile int previousRoofState
  hoistOnTime,        \* long hoistOnTime
  now,                \* millis(), as a long
  relay,              \* level of the two relay output pins
  sensor,             \* levels of the input pins as the latest handler read them
  inbox,              \* string messages received and not yet processed
  sent,               \* replies written by the latest handler
  pc,                 \* position of the program
  call,               \* the routine that called motorOff / is driving the relays
  phase,              \* "boot", "drain" (latest handler was stringCallback) or "tick"
  applied,            \* commands applied by stringCallback in the current cycle
  events              \* environment events so far

vars == <<roofState, previousRoofState, hoistOnTime, now, relay, sensor, inbox,
          sent, pc, call, phase, applied, events>>

(***************************************************************************)
(* 32-bit arithmetic.                                                      *)
(***************************************************************************)
\* a + d with wrap-around, for 0 <= d <= MaxLong
WrapAdd(a, d) ==
  IF a <= MaxLong - d THEN a + d
  ELSE (a - MaxLong) + (d + MinLong) - 1

\* (long)(a - b) where the subtraction is done on unsigned long
WrapSub(a, b) ==
  IF b >= 0
  THEN IF a >= MinLong + b THEN a - b
       ELSE (a - MinLong) + (MaxLong - b) + 1
  ELSE IF a <= MaxLong + b THEN a - b
       ELSE (a - MaxLong) + (MinLong - b) - 1

(***************************************************************************)
(* stringCallback                                                          *)
(***************************************************************************)
\* the test guarding OPEN and CLOSE
TelescopeParked(s) == s[parkTelescopeRA] = LOW /\ s[parkTelescopeDEC] = LOW

\* variant: the transition is made only when the telescope is parked
CommandState_guarded(cmd, rs, s) ==
  IF cmd = "OPEN" THEN (IF TelescopeParked(s) THEN roofOpening ELSE rs)
  ELSE IF cmd = "CLOSE" THEN (IF TelescopeParked(s) THEN roofClosing ELSE rs)
  ELSE IF cmd = "ABORT" THEN roofStopped
  ELSE rs

\* variant: the ABORT branch is missing
CommandState_noAbort(cmd, rs, s) ==
  IF cmd = "OPEN" THEN roofOpening
  ELSE IF cmd = "CLOSE" THEN roofClosing
  ELSE rs

\* variant: a command repeated while its motion is on stops the motion
CommandState_toggle(cmd, rs, s) ==
  IF cmd = "OPEN" THEN (IF rs = roofOpening THEN roofStopped ELSE roofOpening)
  ELSE IF cmd = "CLOSE" THEN (IF rs = roofClosing THEN roofStopped ELSE roofClosing)
  ELSE IF cmd = "ABORT" THEN roofStopped
  ELSE rs

\* variant: the command strings are matched without regard to case
CommandState_nocase(cmd, rs, s) ==
  IF cmd \in {"OPEN", "open"} THEN roofOpening
  ELSE IF cmd = "CLOSE" THEN roofClosing
  ELSE IF cmd = "ABORT" THEN roofStopped
  ELSE rs

\* roofState after stringCallback(cmd)
CommandState(cmd, rs, s) ==
  IF cmd = "OPEN" THEN roofOpening
  ELSE IF cmd = "CLOSE" THEN roofClosing
  ELSE IF cmd = "ABORT" THEN roofStopped
  ELSE rs

\* the reply of the QUERY branch
QueryReply(s) ==
  IF s[parkTelescopeRA] # LOW /\ s[parkTelescopeDEC] # LOW THEN "NOTELESCOPEPARK"
  ELSE IF s[pinLimitSwitchOpen] = HIGH /\ s[pinLimitSwitchClose] = LOW THEN "OPEN"
  ELSE IF s[pinLimitSwitchClose] = HIGH /\ s[pinLimitSwitchOpen] = LOW THEN "CLOSED"
  ELSE "UNKNOWN"

\* variant: QUERY answers from roofState while the roof is moving
CommandReplies_stateful(cmd, s) ==
  IF cmd \in {"OPEN", "CLOSE"}
  THEN IF TelescopeParked(s) THEN << >> ELSE <<"NOTELESCOPEPARK">>
  ELSE IF cmd = "QUERY"
       THEN IF roofState \in {roofOpening, roofClosing} THEN <<"UNKNOWN">>
            ELSE <<QueryReply(s)>>
  ELSE << >>

\* what stringCallback(cmd) passes to Firmata.sendString
CommandReplies(cmd, s) ==
  IF cmd \in {"OPEN", "CLOSE"}
  THEN IF TelescopeParked(s) THEN << >> ELSE <<"NOTELESCOPEPARK">>
  ELSE IF cmd = "QUERY" THEN <<QueryReply(s)>>
  ELSE << >>

(***************************************************************************)
(* safetyCutout                                                            *)
(***************************************************************************)
roofMotorRunDuration(rs, t, epoch) ==
  IF rs = roofOpening \/ rs = roofClosing THEN WrapSub(t, epoch) ELSE 0

\* variant: a motion that reached its limit is recorded as Open / Closed
safetyCutout_arrived(rs, t, epoch, s) ==
  IF roofMotorRunDuration(rs, t, epoch) > CutoutLimit
     /\ \/ (rs = roofOpening /\ s[pinLimitSwitchOpen] = HIGH)
        \/ (rs = roofClosing /\ s[pinLimitSwitchClose] = HIGH)
  THEN IF rs = roofOpening THEN roofOpen ELSE roofClosed
  ELSE rs

\* variant: the cutout fires from 20000 ms on
safetyCutout_atLimit(rs, t, epoch, s) ==
  IF roofMotorRunDuration(rs, t, epoch) >= CutoutLimit
     /\ \/ (rs = roofOpening /\ s[pinLimitSwitchOpen] = HIGH)
        \/ (rs = roofClosing /\ s[pinLimitSwitchClose] = HIGH)
  THEN roofStopped
  ELSE rs

\* roofState after safetyCutout()
safetyCutout(rs, t, epoch, s) ==
  IF roofMotorRunDuration(rs, t, epoch) > CutoutLimit
     /\ \/ (rs = roofOpening /\ s[pinLimitSwitchOpen] = HIGH)
        \/ (rs = roofClosing /\ s[pinLimitSwitchClose] = HIGH)
  THEN roofStopped
  ELSE rs

\* the relay routine handleState runs for a new state
RelayRoutine(rs) ==
  IF rs = roofOpening THEN "motorFwd"
  ELSE IF rs = roofClosing THEN "motorReverse"
  ELSE "motorOff"

(***************************************************************************)
(* Initial state: the globals as initialised, setup() not yet run.  The    *)
(* levels of the pins before setup() writes them are not set by the        *)
(* program.                                                                *)
(***************************************************************************)
Init ==
  /\ roofState = roofStopped
  /\ previousRoofState = roofStopped
  /\ hoistOnTime = 0
  /\ now = 0
  /\ relay \in [RelayPins -> Levels]
  /\ sensor \in [SensorPins -> Levels]
  /\ inbox = << >>
  /\ sent = << >>
  /\ pc = "setup"
  /\ call = "none"
  /\ phase = "boot"
  /\ applied = << >>
  /\ events = 0

(***************************************************************************)
(* Environment.                                                            *)
(***************************************************************************)
\* a string message arrives; the transport queues it until loop() drains it
Receive(cmd) ==
  /\ events < MaxEvents
  /\ Len(inbox) < MaxInbox
  /\ inbox' = Append(inbox, cmd)
  /\ events' = events + 1
  /\ UNCHANGED <<roofState, previousRoofState, hoistOnTime, now, relay, sensor,
                 sent, pc, call, phase, applied>>

\* time passes while loop() idles
Advance(d) ==
  /\ pc = "loop"
  /\ events < MaxEvents
  /\ now' = WrapAdd(now, d)
  /\ events' = events + 1
  /\ UNCHANGED <<roofState, previousRoofState, hoistOnTime, relay, sensor,
                 inbox, sent, pc, call, phase, applied>>

(***************************************************************************)
(* setup()                                                                 *)
(***************************************************************************)
Setup ==
  /\ pc = "setup"
  /\ pc' = "off_open"
  /\ call' = "setup"
  /\ UNCHANGED <<roofState, previousRoofState, hoistOnTime, now, relay, sensor,
                 inbox, sent, phase, applied, events>>

(***************************************************************************)
(* motorOff(), called by setup, handleState, motorFwd and motorReverse     *)
(***************************************************************************)
MotorOffOpen ==
  /\ pc = "off_open"
  /\ relay' = [relay EXCEPT ![pinRelayOpen] = HIGH]
  /\ pc' = "off_close"
  /\ UNCHANGED <<roofState, previousRoofState, hoistOnTime, now, sensor, inbox,
                 sent, call, phase, applied, events>>

\* variant: the close relay is written with the wrong level
MotorOffClose_low ==
  /\ pc = "off_close"
  /\ relay' = [relay EXCEPT ![pinRelayClose] = LOW]
  /\ pc' = "off_delay"
  /\ UNCHANGED <<roofState, previousRoofState, hoistOnTime, now, sensor, inbox,
                 sent, call, phase, applied, events>>

MotorOffClose ==
  /\ pc = "off_close"
  /\ relay' = [relay EXCEPT ![pinRelayClose] = HIGH]
  /\ pc' = "off_delay"
  /\ UNCHANGED <<roofState, previousRoofState, hoistOnTime, now, sensor, inbox,
                 sent, call, phase, applied, events>>

\* variant: motorOff returns without waiting
MotorOffDelay_nowait ==
  /\ pc = "off_delay"
  /\ now' = now
  /\ pc' = IF call = "motorFwd" THEN "fwd_on"
           ELSE IF call = "motorReverse" THEN "rev_on"
           ELSE "loop"
  /\ call' = IF call \in {"motorFwd", "motorReverse"} THEN call ELSE "none"
  /\ UNCHANGED <<roofState, previousRoofState, hoistOnTime, relay, sensor, inbox,
                 sent, phase, applied, events>>

\* delay(1000) and the return to the caller
MotorOffDelay ==
  /\ pc = "off_delay"
  /\ now' = WrapAdd(now, SettleDelay)
  /\ pc' = IF call = "motorFwd" THEN "fwd_on"
           ELSE IF call = "motorReverse" THEN "rev_on"
           ELSE "loop"
  /\ call' = IF call \in {"motorFwd", "motorReverse"} THEN call ELSE "none"
  /\ UNCHANGED <<roofState, previousRoofState, hoistOnTime, relay, sensor, inbox,
                 sent, phase, applied, events>>

(***************************************************************************)
(* motorFwd() after its call of motorOff                                   *)
(***************************************************************************)
MotorFwdOn ==
  /\ pc = "fwd_on"
  /\ relay' = [relay EXCEPT ![pinRelayClose] = LOW]
  /\ pc' = "fwd_pulse"
  /\ UNCHANGED <<roofState, previousRoofState, hoistOnTime, now, sensor, inbox,
                 sent, call, phase, applied, events>>

\* activateTime = millis(); while ((millis() - activateTime) < 800) {}
MotorFwdPulse ==
  /\ pc = "fwd_pulse"
  /\ now' = WrapAdd(now, PulseWidth)
  /\ pc' = "fwd_release"
  /\ UNCHANGED <<roofState, previousRoofState, hoistOnTime, relay, sensor, inbox,
                 sent, call, phase, applied, events>>

\* variant: the output is held after the pulse window
MotorFwdRelease_hold ==
  /\ pc = "fwd_release"
  /\ pc' = "fwd_stamp"
  /\ UNCHANGED <<roofState, previousRoofState, hoistOnTime, now, relay, sensor,
                 inbox, sent, call, phase, applied, events>>

MotorFwdRelease ==
  /\ pc = "fwd_release"
  /\ relay' = [relay EXCEPT ![pinRelayClose] = HIGH]
  /\ pc' = "fwd_stamp"
  /\ UNCHANGED <<roofState, previousRoofState, hoistOnTime, now, sensor, inbox,
                 sent, call, phase, applied, events>>

MotorFwdStamp ==
  /\ pc = "fwd_stamp"
  /\ hoistOnTime' = now
  /\ pc' = "loop"
  /\ call' = "none"
  /\ UNCHANGED <<roofState, previousRoofState, now, relay, sensor, inbox,
                 sent, phase, applied, events>>

(***************************************************************************)
(* motorReverse() after its call of motorOff                               *)
(***************************************************************************)
MotorReverseOn ==
  /\ pc = "rev_on"
  /\ relay' = [relay EXCEPT ![pinRelayOpen] = LOW]
  /\ pc' = "rev_pulse"
  /\ UNCHANGED <<roofState, previousRoofState, hoistOnTime, now, sensor, inbox,
                 sent, call, phase, applied, events>>

MotorReversePulse ==
  /\ pc = "rev_pulse"
  /\ now' = WrapAdd(now, PulseWidth)
  /\ pc' = "rev_release"
  /\ UNCHANGED <<roofState, previousRoofState, hoistOnTime, relay, sensor, inbox,
                 sent, call, phase, applied, events>>

MotorReverseRelease ==
  /\ pc = "rev_release"
  /\ relay' = [relay EXCEPT ![pinRelayOpen] = HIGH]
  /\ pc' = "rev_stamp"
  /\ UNCHANGED <<roofState, previousRoofState, hoistOnTime, now, sensor, inbox,
                 sent, call, phase, applied, events>>

\* variant: motorReverse does not record the time
MotorReverseStamp_skip ==
  /\ pc = "rev_stamp"
  /\ pc' = "loop"
  /\ call' = "none"
  /\ UNCHANGED <<roofState, previousRoofState, hoistOnTime, now, relay, sensor,
                 inbox, sent, phase, applied, events>>

MotorReverseStamp ==
  /\ pc = "rev_stamp"
  /\ hoistOnTime' = now
  /\ pc' = "loop"
  /\ call' = "none"
  /\ UNCHANGED <<roofState, previousRoofState, now, relay, sensor, inbox,
                 sent, phase, applied, events>>

(***************************************************************************)
(* loop()                                                                  *)
(***************************************************************************)
\* Firmata.processInput() delivering the oldest message to stringCallback
ProcessInput ==
  /\ pc = "loop"
  /\ inbox # << >>
  /\ \E s \in [SensorPins -> Levels] :
       /\ sensor' = s
       /\ roofState' = CommandState(Head(inbox), roofState, s)
       /\ sent' = CommandReplies(Head(inbox), s)
  /\ applied' = IF phase = "drain" THEN Append(applied, Head(inbox))
                ELSE <<Head(inbox)>>
  /\ inbox' = Tail(inbox)
  /\ phase' = "drain"
  /\ UNCHANGED <<previousRoofState, hoistOnTime, now, relay, pc, call, events>>

\* variant: the tick does not wait for the pending messages to be drained
HandleState_eager ==
  /\ pc = "loop"
  /\ \E s \in [SensorPins -> Levels] :
       /\ sensor' = s
       /\ roofState' = safetyCutout(roofState, now, hoistOnTime, s)
  /\ IF roofState' # previousRoofState
     THEN /\ previousRoofState' = roofState'
          /\ call' = RelayRoutine(roofState')
          /\ pc' = "off_open"
     ELSE UNCHANGED <<previousRoofState, call, pc>>
  /\ applied' = IF phase = "drain" THEN applied ELSE << >>
  /\ phase' = "tick"
  /\ sent' = << >>
  /\ UNCHANGED <<hoistOnTime, now, relay, inbox, events>>

\* variant: the relay routine is run on every tick, changed state or not
HandleState_always ==
  /\ pc = "loop"
  /\ inbox = << >>
  /\ \E s \in [SensorPins -> Levels] :
       /\ sensor' = s
       /\ roofState' = safetyCutout(roofState, now, hoistOnTime, s)
  /\ previousRoofState' = roofState'
  /\ call' = RelayRoutine(roofState')
  /\ pc' = "off_open"
  /\ applied' = IF phase = "drain" THEN applied ELSE << >>
  /\ phase' = "tick"
  /\ sent' = << >>
  /\ UNCHANGED <<hoistOnTime, now, relay, inbox, events>>

\* handleState() up to the call of the relay routine
HandleState ==
  /\ pc = "loop"
  /\ inbox = << >>
  /\ \E s \in [SensorPins -> Levels] :
       /\ sensor' = s
       /\ roofState' = safetyCutout(roofState, now, hoistOnTime, s)
  /\ IF roofState' # previousRoofState
     THEN /\ previousRoofState' = roofState'
          /\ call' = RelayRoutine(roofState')
          /\ pc' = "off_open"
     ELSE UNCHANGED <<previousRoofState, call, pc>>
  /\ applied' = IF phase = "drain" THEN applied ELSE << >>
  /\ phase' = "tick"
  /\ sent' = << >>
  /\ UNCHANGED <<hoistOnTime, now, relay, inbox, events>>

Next ==
  \/ \E cmd \in Commands : Receive(cmd)
  \/ \E d \in Gaps : Advance(d)
  \/ Setup
  \/ MotorOffOpen
  \/ MotorOffClose
  \/ MotorOffDelay
  \/ MotorFwdOn
  \/ MotorFwdPulse
  \/ MotorFwdRelease
  \/ MotorFwdStamp
  \/ MotorReverseOn
  \/ MotorReversePulse
  \/ MotorReverseRelease
  \/ MotorReverseStamp
  \/ ProcessInput
  \/ HandleState

Spec == Init /\ [][Next]_vars

(***************************************************************************)
(* Vocabulary of the properties.                                           *)
(***************************************************************************)
\* a relay output is energized when it is driven LOW
Energized(p) == relay[p] = LOW
BothReleased == relay[pinRelayOpen] = HIGH /\ relay[pinRelayClose] = HIGH
Moving == {roofOpening, roofClosing}
\* the park interlock: both park sensors read parked (LOW)
InterlockSatisfied(s) == s[parkTelescopeRA] = LOW /\ s[parkTelescopeDEC] = LOW
\* a limit switch is asserted at the level for which QUERY reports that limit
Asserted(s, p) == s[p] = HIGH
\* the state a command asks for
Target(c) ==
  IF c = "OPEN" THEN roofOpening ELSE IF c = "CLOSE" THEN roofClosing ELSE roofStopped
\* the command stringCallback applied most recently in this cycle
LastApplied == applied[Len(applied)]
\* the latest handler was stringCallback and it was given c
JustApplied(c) == phase = "drain" /\ applied # << >> /\ LastApplied = c
\* the step is stringCallback(c)
CmdStep(c) ==
  pc = "loop" /\ inbox # << >> /\ Head(inbox) = c /\ events' = events
\* the step is handleState() up to its call of a relay routine
TickStep == pc = "loop" /\ inbox = << >> /\ events' = events
\* the step returns from the relay routine handleState called
TickEnd == pc # "loop" /\ pc' = "loop" /\ call # "setup"
Booting == pc = "setup" \/ call = "setup"

(***************************************************************************)
(* C1  After boot, and at every statement inside motorOff, motorFwd and    *)
(* motorReverse, the open relay and the close relay are never energized    *)
(* at the same instant.                                                    *)
(***************************************************************************)
C1_NeverBothEnergized ==
  ~Booting => ~(Energized(pinRelayOpen) /\ Energized(pinRelayClose))

\* a relay is energized in the routine that reverses the direction: the
\* settle delay of motorReverse started when the pulse of motorFwd was stamped
C1_Witness ==
  /\ pc = "rev_pulse"
  /\ hoistOnTime # 0
  /\ now = WrapAdd(hoistOnTime, SettleDelay)
  /\ Energized(pinRelayOpen)
  /\ ~Energized(pinRelayClose)

(***************************************************************************)
(* C2  A tick that starts in Opening (Closing) with more than 20000 ms     *)
(* since hoistOnTime and with the open (close) limit switch not asserted   *)
(* sets roofState to Stopped and runs the stop routine.  Stated for the    *)
(* motions that are in effect (the state was applied by an earlier tick,   *)
(* so hoistOnTime is the start of this motion).                            *)
(***************************************************************************)
C2_CutoutWhenLimitNotReached ==
  [][ /\ TickStep
      /\ roofState \in Moving
      /\ previousRoofState = roofState
      /\ WrapSub(now, hoistOnTime) > CutoutLimit
      /\ \/ roofState = roofOpening /\ ~Asserted(sensor', pinLimitSwitchOpen)
         \/ roofState = roofClosing /\ ~Asserted(sensor', pinLimitSwitchClose)
      => /\ roofState' = roofStopped
         /\ call' = "motorOff"
         /\ pc' = "off_open" ]_vars

(***************************************************************************)
(* C3  OPEN or CLOSE applied while the park interlock is not satisfied     *)
(* leaves roofState unchanged, and the tick that follows it starts no      *)
(* drive routine.                                                          *)
(***************************************************************************)
C3_NoMotionWhileUnparked ==
  [][ /\ \A c \in {"OPEN", "CLOSE"} :
           CmdStep(c) /\ ~InterlockSatisfied(sensor') => roofState' = roofState
      /\ \A c \in {"OPEN", "CLOSE"} :
           TickStep /\ phase = "drain" /\ applied = <<c>> /\ ~InterlockSatisfied(sensor)
             => call' \notin {"motorFwd", "motorReverse"} ]_vars

(***************************************************************************)
(* C4  OPEN (CLOSE) applied while the park interlock is not satisfied      *)
(* emits exactly one NOTELESCOPEPARK reply and roofState becomes Opening   *)
(* (Closing) all the same; applied while it is satisfied it emits no reply *)
(* and roofState becomes Opening (Closing).                                *)
(***************************************************************************)
C4_InterlockIsAdvisory ==
  \A c \in {"OPEN", "CLOSE"} :
    JustApplied(c) =>
      /\ roofState = Target(c)
      /\ sent = IF InterlockSatisfied(sensor) THEN << >> ELSE <<"NOTELESCOPEPARK">>

\* OPEN applied, RA not parked, while the roof was closing
C4_Witness ==
  /\ JustApplied("OPEN")
  /\ ~InterlockSatisfied(sensor)
  /\ previousRoofState = roofClosing
  /\ roofState = roofOpening
  /\ sent = <<"NOTELESCOPEPARK">>

(***************************************************************************)
(* C5  QUERY replies NOTELESCOPEPARK unless both park sensors read parked; *)
(* otherwise OPEN if only the open limit is asserted, CLOSED if only the   *)
(* close limit is asserted, UNKNOWN when both or neither is.               *)
(***************************************************************************)
C5_QueryTable ==
  JustApplied("QUERY") =>
    sent = << IF ~InterlockSatisfied(sensor) THEN "NOTELESCOPEPARK"
              ELSE IF Asserted(sensor, pinLimitSwitchOpen)
                      /\ ~Asserted(sensor, pinLimitSwitchClose) THEN "OPEN"
              ELSE IF Asserted(sensor, pinLimitSwitchClose)
                      /\ ~Asserted(sensor, pinLimitSwitchOpen) THEN "CLOSED"
              ELSE "UNKNOWN" >>

(***************************************************************************)
(* C6  With roofState and previousRoofState both Stopped, both park        *)
(* sensors parked and OPEN the only command applied before the tick, the   *)
(* tick ends with roofState = Opening after one run of motorFwd, which     *)
(* sets hoistOnTime to the time its pulse ended; for every limit-switch    *)
(* reading and every time elapsed since the previous hoistOnTime.          *)
(***************************************************************************)
C6_OpenFromStopped ==
  [][ /\ ( /\ TickStep
           /\ phase = "drain"
           /\ applied = <<"OPEN">>
           /\ previousRoofState = roofStopped
           /\ InterlockSatisfied(sensor) )
         => /\ roofState' = roofOpening
            /\ call' = "motorFwd"
            /\ pc' = "off_open"
      /\ (TickEnd /\ call = "motorFwd")
         => /\ roofState' = roofOpening
            /\ hoistOnTime' = now' ]_vars

(***************************************************************************)
(* C7  Whenever pinRelayOpen is energized the state being applied is       *)
(* Opening, and whenever pinRelayClose is energized it is Closing.         *)
(***************************************************************************)
C7_RelayMatchesDirection ==
  ~Booting =>
    /\ Energized(pinRelayOpen) => previousRoofState = roofOpening
    /\ Energized(pinRelayClose) => previousRoofState = roofClosing

(***************************************************************************)
(* C8  (as claimed) ABORT applied while previousRoofState is Opening or    *)
(* Closing: the next tick runs motorOff and ends in Stopped, whatever      *)
(* other commands are applied in the same cycle before that tick.          *)
(***************************************************************************)
C8_AbortAlwaysWins ==
  [][ /\ TickStep
      /\ phase = "drain"
      /\ \E i \in 1..Len(applied) : applied[i] = "ABORT"
      /\ previousRoofState \in Moving
      => /\ roofState' = roofStopped
         /\ call' = "motorOff" ]_vars

(***************************************************************************)
(* C8  (amended) ABORT applied while previousRoofState is Opening or       *)
(* Closing, and no OPEN or CLOSE applied after it in the same cycle: the   *)
(* next tick runs motorOff and ends with roofState = Stopped and both      *)
(* relays de-energized, for every sensor reading and whatever commands     *)
(* were applied before the ABORT in that cycle.                            *)
(***************************************************************************)
C8_AbortStopsOnNextTick ==
  [][ /\ ( /\ TickStep
           /\ phase = "drain"
           /\ previousRoofState \in Moving
           /\ \E i \in 1..Len(applied) :
                /\ applied[i] = "ABORT"
                /\ \A j \in (i+1)..Len(applied) : applied[j] \notin {"OPEN", "CLOSE"} )
         => /\ roofState' = roofStopped
            /\ previousRoofState' = roofStopped
            /\ call' = "motorOff"
            /\ pc' = "off_open"
      /\ (TickEnd /\ call = "motorOff")
         => /\ roofState' = roofStopped
            /\ BothReleased' ]_vars

\* motorOff is running in the tick of a cycle that applied CLOSE and then ABORT
C8_Witness ==
  /\ call = "motorOff"
  /\ pc = "off_delay"
  /\ phase = "tick"
  /\ applied = <<"CLOSE", "ABORT">>
  /\ roofState = roofStopped
  /\ BothReleased

(***************************************************************************)
(* C9  Applying OPEN, CLOSE or ABORT again right after itself leaves       *)
(* roofState as the first application left it.  A command whose target is  *)
(* already the applied state changes neither roofState, previousRoofState, *)
(* hoistOnTime nor the relays, and the tick that follows it starts no      *)
(* drive routine (the only code that energizes a relay or writes           *)
(* hoistOnTime) and runs a relay routine at all (motorOff) only when its   *)
(* own safety cutout fires.                                                *)
(***************************************************************************)
C9_CommandsIdempotent ==
  [][ \A c \in {"OPEN", "CLOSE", "ABORT"} :
        /\ (CmdStep(c) /\ JustApplied(c)) => roofState' = roofState
        /\ (CmdStep(c) /\ roofState = Target(c) /\ previousRoofState = Target(c))
           => UNCHANGED <<roofState, previousRoofState, hoistOnTime, relay>>
        /\ (TickStep /\ JustApplied(c) /\ previousRoofState = Target(c))
           => /\ call' \notin {"motorFwd", "motorReverse"}
              /\ roofState' = roofState => (pc' = "loop" /\ call' = "none") ]_vars

\* OPEN was applied twice in one cycle while the roof was opening
C9_Witness ==
  /\ phase = "drain"
  /\ applied = <<"OPEN", "OPEN">>
  /\ roofState = roofOpening
  /\ previousRoofState = roofOpening
  /\ hoistOnTime # 0

(***************************************************************************)
(* C10  The reply to QUERY is a function of the sensor readings taken when *)
(* it is processed, and processing QUERY leaves roofState,                 *)
(* previousRoofState, hoistOnTime and both relay outputs unchanged.        *)
(***************************************************************************)
C10_QueryIsPure ==
  [][ CmdStep("QUERY") =>
        /\ sent' = << IF sensor'[parkTelescopeRA] = HIGH /\ sensor'[parkTelescopeDEC] = HIGH
                      THEN "NOTELESCOPEPARK"
                      ELSE IF sensor'[pinLimitSwitchOpen] = sensor'[pinLimitSwitchClose]
                      THEN "UNKNOWN"
                      ELSE IF sensor'[pinLimitSwitchOpen] = HIGH THEN "OPEN"
                      ELSE "CLOSED" >>
        /\ UNCHANGED <<roofState, previousRoofState, hoistOnTime, relay>> ]_vars

\* QUERY answered from the limit switches while the roof is moving
C10_Witness ==
  /\ JustApplied("QUERY")
  /\ roofState = roofClosing
  /\ previousRoofState = roofClosing
  /\ sent = <<"CLOSED">>

(***************************************************************************)
(* C11  roofState and previousRoofState are always Stopped, Opening or     *)
(* Closing (Closed and Open are never assigned), and every change of       *)
(* roofState is OPEN -> Opening, CLOSE -> Closing, ABORT -> Stopped, or a  *)
(* tick whose cutout takes Opening or Closing to Stopped.                  *)
(***************************************************************************)
C11_TransitionTable ==
  [][ /\ {roofState, previousRoofState, roofState', previousRoofState'}
           \subseteq {roofStopped, roofOpening, roofClosing}
      /\ roofState' # roofState =>
           \/ CmdStep("OPEN") /\ roofState' = roofOpening
           \/ CmdStep("CLOSE") /\ roofState' = roofClosing
           \/ CmdStep("ABORT") /\ roofState' = roofStopped
           \/ /\ TickStep
              /\ roofState \in Moving
              /\ WrapSub(now, hoistOnTime) > CutoutLimit
              /\ roofState' = roofStopped ]_vars

\* the tick of a cycle without commands took the roof to Stopped and called
\* motorOff: the cutout transition
C11_Witness ==
  /\ phase = "tick"
  /\ applied = << >>
  /\ pc = "off_open"
  /\ call = "motorOff"
  /\ roofState = roofStopped
  /\ previousRoofState = roofStopped
  /\ hoistOnTime # 0

(***************************************************************************)
(* C12  A string that is not exactly OPEN, CLOSE, ABORT or QUERY is        *)
(* ignored: stringCallback sends no reply and leaves roofState,            *)
(* previousRoofState, hoistOnTime and both relay outputs unchanged.        *)
(***************************************************************************)
C12_UnknownCommandIgnored ==
  [][ \A c \in Commands \ {"OPEN", "CLOSE", "ABORT", "QUERY"} :
        CmdStep(c) =>
          /\ sent' = << >>
          /\ UNCHANGED <<roofState, previousRoofState, hoistOnTime, relay>> ]_vars

\* "open" was applied right after CLOSE: the roof is still to close
C12_Witness ==
  /\ phase = "drain"
  /\ applied = <<"CLOSE", "open">>
  /\ roofState = roofClosing
  /\ previousRoofState = roofStopped
  /\ sent = << >>

(***************************************************************************)
(* C13  In every tick, once the cutout is evaluated, a relay routine is    *)
(* called if and only if roofState differs from previousRoofState; it is   *)
(* the one routine the new state selects (Opening: motorFwd, Closing:      *)
(* motorReverse, otherwise motorOff), no other routine runs before the     *)
(* tick ends, and at the end of the tick previousRoofState = roofState.    *)
(***************************************************************************)
C13_ActOnChangeOnly ==
  [][ /\ TickStep =>
           /\ (roofState' # previousRoofState) <=> (pc' = "off_open")
           /\ roofState' # previousRoofState =>
                call' = IF roofState' = roofOpening THEN "motorFwd"
                        ELSE IF roofState' = roofClosing THEN "motorReverse"
                        ELSE "motorOff"
           /\ roofState' = previousRoofState =>
                pc' = "loop" /\ call' = "none" /\ relay' = relay
           /\ previousRoofState' = roofState'
      /\ (pc # "loop" /\ ~Booting) =>
           /\ call' = call \/ (pc' = "loop" /\ call' = "none")
           /\ UNCHANGED <<roofState, previousRoofState>>
      /\ pc' = "loop" => previousRoofState' = roofState' \/ phase' = "drain" ]_vars

\* the tick of a cycle that applied OPEN and then CLOSE has ended after one
\* run of one routine: one settle delay and one pulse since boot
C13_Witness ==
  /\ pc = "loop"
  /\ phase = "tick"
  /\ applied = <<"OPEN", "CLOSE">>
  /\ roofState = roofClosing
  /\ previousRoofState = roofClosing
  /\ hoistOnTime = SettleDelay + SettleDelay + PulseWidth
  /\ now = hoistOnTime

(***************************************************************************)
(* C14  A relay output is energized only by the statement that follows the *)
(* settle step of the same drive routine: that statement is reached only   *)
(* from the delay of motorOff, which holds both outputs de-energized for   *)
(* 1000 ms, and it finds both outputs de-energized.  No output is ever     *)
(* energized while the other one is, nor without the settle step.          *)
(***************************************************************************)
C14_SettleBeforeEnergize ==
  [][ /\ \A p \in RelayPins :
           (~Booting /\ relay[p] = HIGH /\ relay'[p] = LOW) =>
             /\ pc \in {"fwd_on", "rev_on"}
             /\ BothReleased
             /\ relay'[CHOOSE q \in RelayPins : q # p] = HIGH
      /\ (pc' \in {"fwd_on", "rev_on"} /\ pc' # pc) =>
             /\ pc = "off_delay"
             /\ call \in {"motorFwd", "motorReverse"}
             /\ call' = call
             /\ BothReleased /\ BothReleased'
             /\ now' = WrapAdd(now, SettleDelay)
      /\ (pc \in {"fwd_on", "rev_on"}) => now' = now ]_vars

\* the pulse of motorFwd is on after an earlier drive: the settle step
\* came between the two pulses
C14_Witness ==
  /\ pc = "fwd_pulse"
  /\ call = "motorFwd"
  /\ hoistOnTime # 0
  /\ now = WrapAdd(hoistOnTime, SettleDelay)
  /\ Energized(pinRelayClose)
  /\ ~Energized(pinRelayOpen)

(***************************************************************************)
(* C15  A relay output is energized only inside a drive routine, from its  *)
(* energize statement to its release statement, which are one pulse window *)
(* of 800 ms apart; the output is released before the routine returns, so  *)
(* whenever the program is in loop() (where commands are processed and     *)
(* where every tick ends) both outputs are de-energized, whatever          *)
(* roofState is.                                                           *)
(***************************************************************************)
C15_PulseAndRelease ==
  [][ /\ \A p \in RelayPins :
           (~Booting' /\ relay'[p] = LOW) =>
             /\ pc' \in {"fwd_pulse", "fwd_release", "rev_pulse", "rev_release"}
             /\ call' \in {"motorFwd", "motorReverse"}
      /\ pc' = "loop" => BothReleased'
      /\ (pc \in {"fwd_pulse", "rev_pulse"} /\ pc' # pc) =>
             /\ pc' = IF pc = "fwd_pulse" THEN "fwd_release" ELSE "rev_release"
             /\ now' = WrapAdd(now, PulseWidth)
             /\ relay' = relay
      /\ pc \in {"fwd_release", "rev_release"} => now' = now
      /\ (pc \in {"fwd_release", "rev_release"} /\ pc' # pc) => BothReleased' ]_vars

\* the tick that started the opening has just ended: the roof is Opening and
\* both outputs are released
C15_Witness ==
  /\ pc = "loop"
  /\ phase = "tick"
  /\ roofState = roofOpening
  /\ previousRoofState = roofOpening
  /\ hoistOnTime = now
  /\ BothReleased

(***************************************************************************)
(* C16  hoistOnTime is written by the drive routines only: motorFwd and    *)
(* motorReverse each set it to the current time once their pulse has       *)
(* ended, as their last statement; motorOff, the cutout and the rest of    *)
(* the tick, and every command (OPEN, CLOSE, ABORT, QUERY, unrecognized)   *)
(* leave it unchanged.                                                     *)
(***************************************************************************)
C16_EpochWrittenByDriveOnly ==
  [][ /\ hoistOnTime' # hoistOnTime =>
           /\ pc \in {"fwd_stamp", "rev_stamp"}
           /\ call \in {"motorFwd", "motorReverse"}
      /\ (TickEnd /\ call \in {"motorFwd", "motorReverse"}) =>
           /\ pc \in {"fwd_stamp", "rev_stamp"}
           /\ hoistOnTime' = now
           /\ now' = now
           /\ BothReleased
      /\ (\E c \in Commands : CmdStep(c)) => hoistOnTime' = hoistOnTime
      /\ TickStep => hoistOnTime' = hoistOnTime
      /\ call \in {"motorOff", "setup"} => hoistOnTime' = hoistOnTime
      /\ pc \in {"off_open", "off_close", "off_delay"} => hoistOnTime' = hoistOnTime ]_vars

\* a drive routine has returned and left the time of its pulse's end in
\* hoistOnTime; the stop that ABORT asked for has run and not touched it
C16_Witness ==
  /\ pc = "loop"
  /\ phase = "tick"
  /\ applied = <<"ABORT">>
  /\ roofState = roofStopped
  /\ previousRoofState = roofStopped
  /\ hoistOnTime = SettleDelay + SettleDelay + PulseWidth
  /\ now = WrapAdd(hoistOnTime, SettleDelay)

(***************************************************************************)
(* C17  A tick that starts with roofState = Stopped, or with roofState     *)
(* Opening or Closing and a run duration of at most 20000 ms (exactly      *)
(* 20000 ms does not fire the cutout), leaves roofState unchanged for      *)
(* every sensor reading; the only change a tick makes to roofState is      *)
(* Opening or Closing -> Stopped.                                          *)
(***************************************************************************)
C17_TickChangesStateByCutoutOnly ==
  [][ TickStep =>
        /\ roofState = roofStopped => roofState' = roofState
        /\ (roofState \in Moving /\ WrapSub(now, hoistOnTime) <= CutoutLimit)
             => roofState' = roofState
        /\ roofState' # roofState =>
             roofState \in Moving /\ roofState' = roofStopped ]_vars

\* a tick has run exactly 20000 ms after the pulse with the open limit read
\* HIGH, and the roof is still Opening
C17_Witness ==
  /\ pc = "loop"
  /\ phase = "tick"
  /\ applied = << >>
  /\ roofState = roofOpening
  /\ previousRoofState = roofOpening
  /\ WrapSub(now, hoistOnTime) = CutoutLimit
  /\ sensor[pinLimitSwitchOpen] = HIGH

(***************************************************************************)
(* C18  Commands and ticks do not interleave.  A tick starts only when no  *)
(* received message is pending; messages are applied oldest first and a    *)
(* new one is queued behind those pending; from the start to the end of a  *)
(* relay routine no message is taken from the queue and roofState is not   *)
(* modified, so a message that arrives meanwhile is applied, in arrival    *)
(* order, by the drain of a later cycle.                                   *)
(***************************************************************************)
C18_CommandsBeforeTick ==
  [][ /\ (pc = "loop" /\ events' = events /\ inbox' = inbox) => inbox = << >>
      /\ (phase' = "tick" /\ (phase # "tick" \/ pc' # pc)) =>
           (pc # "loop" \/ inbox = << >>)
      /\ Len(inbox') < Len(inbox) =>
           /\ pc = "loop" /\ pc' = "loop"
           /\ inbox' = Tail(inbox)
           /\ phase' = "drain"
           /\ applied' = IF phase = "drain" THEN Append(applied, Head(inbox))
                         ELSE <<Head(inbox)>>
      /\ Len(inbox') > Len(inbox) =>
           /\ Len(inbox') = Len(inbox) + 1
           /\ SubSeq(inbox', 1, Len(inbox)) = inbox
           /\ UNCHANGED <<roofState, applied, phase, pc>>
      /\ pc # "loop" =>
           /\ UNCHANGED <<roofState, applied>>
           /\ Len(inbox') >= Len(inbox) ]_vars

\* ABORT and then CLOSE arrived while motorFwd holds its pulse: both are
\* pending, in that order, and the roof is still Opening
C18_Witness ==
  /\ pc = "fwd_pulse"
  /\ call = "motorFwd"
  /\ Energized(pinRelayClose)
  /\ inbox = <<"ABORT", "CLOSE">>
  /\ applied = <<"OPEN">>
  /\ roofState = roofOpening
====
